---- MODULE Spec2Model ----
(***************************************************************************)
(* Relay pipeline of Channel-Monitor: ChannelMonitor (monitor.py),         *)
(* PostPublisher (publisher.py), MessageFilter (filters.py) and the        *)
(* SQLite store (database.py).  Strings are sequences of one-character     *)
(* strings so that substring search and lower-casing are computed.         *)
(***************************************************************************)
EXTENDS Integers, Sequences, FiniteSets, Bags, TLC

\* ------------------------------------------------------------------ bounds
NumFeeds == 1
NumTargets == 2
NumPush == 1
MaxMsgs == 1
MaxFaults == 1
MaxFilterRows == 1
MaxTextLen == 3
MaxRules == 2
MaxBacklog == 2
NumSubscribed == 2
MaxTitleLen == 128
MaxUsernameLen == 32
MaxTruncLen == 5
MaxTruncText == 8

\* ------------------------------------------------------- program constants
HistoryLimit == 50
StaleDays == 1
HoursPerDay == 24
MAX_POST_LENGTH == 4096
CaptionReserve == 200
MaxHashtags == 5
SimpleTextLimit == 3500

Feeds == 1..NumFeeds
Targets == 1..NumTargets
Scanner == 0
PushTasks == 1..NumPush
Tasks == {Scanner} \cup PushTasks

\* ----------------------------------------------------------------- strings
Alphabet == {"a", "A", "1"}
Digits == {"1"}
Texts == UNION {[1..n -> Alphabet] : n \in 0..MaxTextLen}

\* str.lower(), one character (or one regex token) at a time
LowerChar(c) ==
    CASE c = "A" -> "a"
      [] c = "\\D" -> "\\d"
      [] c = "\\T" -> "\\t"
      [] OTHER -> c

Lower(s) == [i \in 1..Len(s) |-> LowerChar(s[i])]

\* Python's `value in text`
Contains(text, value) ==
    \E i \in 0..(Len(text) - Len(value)) :
        \A k \in 1..Len(value) : text[i + k] = value[k]

\* re.compile raises re.error on an unbalanced parenthesis and on the escape
\* \T, which the re module does not know (\t, the tab, it does)
re_valid(pattern) == \A k \in 1..Len(pattern) : pattern[k] \notin {"(", "\\T"}

re_token_match(tok, c, ignorecase) ==
    CASE tok = "\\d" -> c \in Digits
      [] tok = "\\D" -> c \notin Digits
      [] tok = "\\t" -> c = "\t"
      [] OTHER -> IF ignorecase THEN LowerChar(tok) = LowerChar(c) ELSE tok = c

\* pattern.search(text)
re_search(pattern, ignorecase, text) ==
    \E i \in 0..(Len(text) - Len(pattern)) :
        \A k \in 1..Len(pattern) : re_token_match(pattern[k], text[i + k], ignorecase)

\* ------------------------------------------------------------ filter chain
\* Database.get_filters(active_only=True)
get_filters(rows) == SelectSeq(rows, LAMBDA r : r.is_active)

\* one iteration of the for loop of check_message: "fail" is the break with
\* passes_all_filters = False, "next" goes on to the following rule
filter_step(text, f) ==
    LET case_sensitive == f.is_case_sensitive
        value == IF case_sensitive THEN f.value ELSE Lower(f.value)
        text_to_check == IF case_sensitive THEN text ELSE Lower(text)
    IN  CASE f.filter_type = "include" ->
                IF ~Contains(text_to_check, value) THEN "fail" ELSE "next"
          [] f.filter_type = "exclude" ->
                IF Contains(text_to_check, value) THEN "fail" ELSE "next"
          [] f.filter_type = "regex" ->
                IF ~re_valid(value) THEN "next"
                ELSE IF ~re_search(value, ~case_sensitive, text) THEN "fail" ELSE "next"
          [] OTHER -> "next"

RECURSIVE filter_loop(_, _, _)
filter_loop(text, fs, i) ==
    IF i > Len(fs) THEN TRUE
    ELSE IF filter_step(text, fs[i]) = "fail" THEN FALSE
    ELSE filter_loop(text, fs, i + 1)

\* check_message returning after its first rule
check_message_first_rule(text, rows) ==
    LET fs == get_filters(rows)
    IN  IF text = <<>> THEN FALSE
        ELSE IF fs = <<>> THEN TRUE
        ELSE filter_step(text, fs[1]) # "fail"

\* MessageFilter.check_message(text) with the rules loaded from the store
check_message(text, rows) ==
    LET fs == get_filters(rows)
    IN  IF text = <<>> THEN FALSE
        ELSE IF fs = <<>> THEN TRUE
        ELSE filter_loop(text, fs, 1)

\* MessageFilter.get_media_type / check_media_type with ['photo', 'video']
MediaKinds == {"none", "photo", "video", "document"}
get_media_type(media) == IF media = "none" THEN "None" ELSE media
AllowedMediaTypes == {"photo", "video"}
check_media_type(media) == get_media_type(media) \in AllowedMediaTypes

\* TelegramMonitorBot.check_message_filters (simplified variant: rows carry
\* only filter_type and value)
check_message_filters(text, rows) ==
    LET text_lower == Lower(text)
        include_filters == {Lower(rows[i].value) : i \in {j \in 1..Len(rows) : rows[j].filter_type = "include"}}
        exclude_filters == {Lower(rows[i].value) : i \in {j \in 1..Len(rows) : rows[j].filter_type = "exclude"}}
    IN  IF text = <<>> THEN FALSE
        ELSE IF include_filters # {} /\ ~(\E v \in include_filters : Contains(text_lower, v)) THEN FALSE
        ELSE IF exclude_filters # {} /\ (\E v \in exclude_filters : Contains(text_lower, v)) THEN FALSE
        ELSE TRUE

\* ------------------------------------------------------------------ state
VARIABLES
    source_channels,   \* table source_channels, in rowid order
    target_channels,   \* table target_channels, in rowid order
    filters,           \* table filters, in rowid order
    published_posts,   \* table published_posts (the dedup ledger)
    statistics,        \* table statistics: posts_published per source channel
    errors,            \* table errors, a bag of rows
    handlers,          \* feeds with a registered NewMessage handler
    handler_info,      \* the channel_info variable the handlers close over
    setup_todo,        \* channels _setup_monitored_channels has still to visit
    provider,          \* messages each feed has emitted (id = position)
    faults,            \* transport errors raised so far
    task,              \* the running _process_message calls
    scan_channels,     \* _periodic_check: channels left in this round
    scan_info,         \* _check_channel_history: its channel_info
    scan_msgs,         \* _check_channel_history: message ids left to visit
    sent,              \* history: sends the transport completed
    addlog,            \* history: add_published_post calls and their results
    attempts,          \* history: (feed, item, target) of the publish_message calls
    processed,         \* history: (feed, item) of the _process_message calls that returned
    in_text,           \* filter evaluation: the text given
    out_pass,          \* filter evaluation: the result returned
    in_message,        \* caption rendering: the message given
    in_info,           \* caption rendering: the source_channel_info given
    out_caption,       \* caption rendering: the result returned
    in_max_length         \* truncate_text: the max_length given

dbvars == <<source_channels, target_channels, filters, published_posts, statistics, errors>>
monvars == <<handlers, handler_info, setup_todo>>
scanvars == <<scan_channels, scan_info, scan_msgs>>
histvars == <<sent, addlog>>
ordvars == <<attempts, processed>>
capvars == <<in_message, in_info, out_caption, in_max_length>>
evalvars == <<in_text, out_pass, capvars>>
vars == <<source_channels, target_channels, filters, published_posts, statistics,
          errors, handlers, handler_info, setup_todo, provider, faults,
          task, scan_channels, scan_info, scan_msgs, sent, addlog,
          attempts, processed, in_text, out_pass, in_message, in_info, out_caption,
          in_max_length>>

\* inputs of the pipeline
PipelineMessages == {[text |-> <<"1">>, media |-> "photo"],
                     [text |-> <<"A">>, media |-> "photo"],
                     [text |-> <<>>, media |-> "photo"],
                     [text |-> <<"1">>, media |-> "none"]}
PipelineRules == {[filter_type |-> "exclude", value |-> <<"a">>,
                   is_case_sensitive |-> FALSE, is_active |-> TRUE]}
Ages == {24, 36, 48}

NoResult == [fn |-> "none", result |-> FALSE, calls |-> 0]

NoInfo == [channel_id |-> 0, last_scanned_id |-> 0]

\* caption rendering not called: no message, an empty source_channel_info
NoDate == [day |-> 0, month |-> 0, year |-> 0, hour |-> 0, minute |-> 0]
NoMessage == [text |-> <<>>, id |-> 0, date |-> NoDate]
NoChannelInfo == [title |-> <<>>, username |-> <<>>, invite_link |-> <<>>]
NoCaption == [fn |-> "none", raised |-> FALSE, parts |-> <<>>, text |-> <<>>, delivered |-> {}]

IdleTask == [pc |-> "idle", chat |-> 0, id |-> 0, info |-> 0, targets |-> <<>>,
             idx |-> 0, age |-> 0, verdict |-> "none", calls |-> 0, writes |-> 0,
             tried |-> {}, failed |-> {}, skipped |-> {}, dup_calls |-> 0,
             rejected |-> FALSE, limited |-> {}]

Key(src, msg, tgt) == <<src, msg, tgt>>
RowKey(r) == <<r.source_channel_id, r.source_message_id, r.target_channel_id>>

RECURSIVE SeqSum(_)
SeqSum(s) == IF s = <<>> THEN 0 ELSE Len(Head(s)) + SeqSum(Tail(s))
Emitted == SeqSum([i \in DOMAIN provider |-> provider[i]])

\* ------------------------------------------------------------- database.py
\* is_post_published that never finds the row
is_post_published_never(ledger, src, msg, tgt) == FALSE

\* Database.is_post_published
is_post_published(ledger, src, msg, tgt) ==
    \E r \in ledger : RowKey(r) = Key(src, msg, tgt)

\* add_published_post without the UNIQUE constraint
add_published_post_no_unique(ledger, stats, src, msg, tgt, pub) ==
    [ledger |-> ledger \cup {[source_channel_id |-> src, source_message_id |-> msg,
                              target_channel_id |-> tgt, published_message_id |-> pub]},
     stats |-> [stats EXCEPT ![src] = @ + 1],
     ok |-> TRUE]

\* add_published_post written with INSERT OR REPLACE
add_published_post_replace(ledger, stats, src, msg, tgt, pub) ==
    [ledger |-> {r \in ledger : RowKey(r) # Key(src, msg, tgt)}
                \cup {[source_channel_id |-> src, source_message_id |-> msg,
                       target_channel_id |-> tgt, published_message_id |-> pub]},
     stats |-> [stats EXCEPT ![src] = @ + 1],
     ok |-> TRUE]

\* add_published_post counting the post before the INSERT is known to succeed
add_published_post_counts_first(ledger, stats, src, msg, tgt, pub) ==
    IF \E r \in ledger : RowKey(r) = Key(src, msg, tgt)
    THEN [ledger |-> ledger, stats |-> [stats EXCEPT ![src] = @ + 1], ok |-> FALSE]
    ELSE [ledger |-> ledger \cup {[source_channel_id |-> src, source_message_id |-> msg,
                                   target_channel_id |-> tgt, published_message_id |-> pub]},
          stats |-> [stats EXCEPT ![src] = @ + 1],
          ok |-> TRUE]

\* Database.add_published_post: the INSERT fails on the UNIQUE constraint, the
\* context manager rolls back and False is returned; otherwise the row and the
\* statistics row are written in one transaction
add_published_post(ledger, stats, src, msg, tgt, pub) ==
    IF \E r \in ledger : RowKey(r) = Key(src, msg, tgt)
    THEN [ledger |-> ledger, stats |-> stats, ok |-> FALSE]
    ELSE [ledger |-> ledger \cup {[source_channel_id |-> src, source_message_id |-> msg,
                                   target_channel_id |-> tgt, published_message_id |-> pub]},
          stats |-> [stats EXCEPT ![src] = @ + 1],
          ok |-> TRUE]

\* Database.add_source_channel: INSERT OR REPLACE drops the row with the same
\* channel_id and appends a new one with the column defaults
add_source_channel(rows, f) ==
    Append(SelectSeq(rows, LAMBDA r : r.channel_id # f),
           [channel_id |-> f, last_scanned_id |-> 0, is_active |-> TRUE])

\* Database.add_target_channel
add_target_channel(rows, t) ==
    Append(SelectSeq(rows, LAMBDA r : r.channel_id # t),
           [channel_id |-> t, is_active |-> TRUE])

\* Database.get_source_channels (active_only=True)
get_source_channels(rows) == SelectSeq(rows, LAMBDA r : r.is_active)

\* get_target_channels without the WHERE is_active = 1
get_target_channels_all(rows) == rows

\* Database.get_target_channels (active_only=True)
get_target_channels(rows) == SelectSeq(rows, LAMBDA r : r.is_active)

\* Database.update_last_scanned_id
update_last_scanned_id(rows, channel_id, last_message_id) ==
    [i \in 1..Len(rows) |->
        IF rows[i].channel_id = channel_id
        THEN [rows[i] EXCEPT !.last_scanned_id = last_message_id]
        ELSE rows[i]]

\* log_error that stores neither the channel nor the message id
log_error_no_context(bag, error_type, channel_id, message_id) ==
    bag (+) SetToBag({[error_type |-> error_type, channel_id |-> 0, message_id |-> 0]})

\* Database.log_error
log_error(bag, error_type, channel_id, message_id) ==
    bag (+) SetToBag({[error_type |-> error_type, channel_id |-> channel_id,
                       message_id |-> message_id]})

\* --------------------------------------------------------------------- Init
Init ==
    /\ source_channels = <<>>
    /\ target_channels = <<>>
    /\ filters = <<>>
    /\ published_posts = {}
    /\ statistics = [f \in Feeds |-> 0]
    /\ errors = EmptyBag
    /\ handlers = {}
    /\ handler_info = 0
    /\ setup_todo = <<>>
    /\ provider = [f \in Feeds |-> <<>>]
    /\ faults = 0
    /\ task = [p \in Tasks |-> IdleTask]
    /\ scan_channels = <<>>
    /\ scan_info = NoInfo
    /\ scan_msgs = <<>>
    /\ sent = {}
    /\ addlog = {}
    /\ attempts = {}
    /\ processed = {}
    /\ in_text = <<>>
    /\ out_pass = NoResult
    /\ in_message = NoMessage
    /\ in_info = NoChannelInfo
    /\ out_caption = NoCaption
    /\ in_max_length = 0

\* ------------------------------------------------------------ publisher.py
\* history: the sends of one _process_message call are counted up to MaxCalls
MaxCalls == NumTargets + MaxFaults

\* history: the ledger holds a row for the key (read off the table itself)
HasRecord(ledger, key) == \E r \in ledger : RowKey(r) = key

\* index of the first target at or after position from for which
\* is_post_published is false (0 when there is none): where the for loop of
\* _process_message next reaches `await self.bot.send_*` in publish_message
NextUnpublished(ledger, chat, id, targets, from) ==
    LET open == {j \in from..Len(targets) : ~is_post_published(ledger, chat, id, targets[j])}
    IN  IF open = {} THEN 0 ELSE CHOOSE j \in open : \A k \in open : j <= k

\* The for loop of _process_message from target position `from` up to the next
\* suspension point: publish_message returns None without a send for every
\* target is_post_published reports, and awaits the send for the first one it
\* does not; with no target left the high-water mark is updated and the call ends.
FanOut(p, t, from, ledger) ==
    LET j == NextUnpublished(ledger, t.chat, t.id, t.targets, from)
        last == IF j = 0 THEN Len(t.targets) ELSE j - 1
        skipped == {t.targets[k] : k \in from..last}
    IN  /\ IF j = 0
           THEN /\ task' = [task EXCEPT ![p] = [t EXCEPT !.pc = "done", !.idx = Len(t.targets) + 1,
                                                        !.tried = @ \cup skipped,
                                                        !.skipped = @ \cup skipped]]
                /\ source_channels' = update_last_scanned_id(source_channels, t.info, t.id)
                /\ attempts' = attempts \cup {Key(t.chat, t.id, x) : x \in skipped}
                /\ processed' = processed \cup {<<t.chat, t.id>>}
           ELSE /\ task' = [task EXCEPT ![p] = [t EXCEPT !.pc = "sending", !.idx = j,
                                                        !.calls = IF @ < MaxCalls THEN @ + 1 ELSE @,
                                                        !.dup_calls =
                                                            IF HasRecord(ledger, Key(t.chat, t.id, t.targets[j]))
                                                            THEN @ + 1 ELSE @,
                                                        !.tried = @ \cup skipped \cup {t.targets[j]},
                                                        !.skipped = @ \cup skipped]]
                /\ source_channels' = source_channels
                /\ attempts' = attempts \cup {Key(t.chat, t.id, x) : x \in skipped \cup {t.targets[j]}}
                /\ processed' = processed

\* ---------------------------------------------------------------- monitor.py
\* Verdict without the filter check
VerdictNoFilter(text, media, age, rows, targets) ==
    IF age \div HoursPerDay > StaleDays THEN "stale"
    ELSE IF ~check_media_type(media) THEN "media"
    ELSE IF targets = <<>> THEN "notargets"
    ELSE "fanout"

\* the early returns of _process_message, in the order of the code
Verdict(text, media, age, rows, targets) ==
    IF age \div HoursPerDay > StaleDays THEN "stale"
    ELSE IF ~check_message(text, rows) THEN "filtered"
    ELSE IF ~check_media_type(media) THEN "media"
    ELSE IF targets = <<>> THEN "notargets"
    ELSE "fanout"

\* ChannelMonitor._process_message(message, channel_info) from its entry to
\* its first suspension point
ProcessMessage(p, chat, id, info, age) ==
    LET message == provider[chat][id]
        t0 == [IdleTask EXCEPT !.chat = chat, !.id = id, !.info = info, !.age = age,
                               !.rejected = ~check_message(message.text, filters)]
        active == get_target_channels(target_channels)
        v == Verdict(message.text, message.media, age, filters, active)
    IN  IF v # "fanout"
        THEN /\ task' = [task EXCEPT ![p] = [t0 EXCEPT !.pc = "done", !.verdict = v]]
             /\ processed' = processed \cup {<<chat, id>>}
             /\ UNCHANGED <<source_channels, attempts>>
        ELSE FanOut(p, [t0 EXCEPT !.verdict = "fanout",
                                  !.targets = [i \in 1..Len(active) |-> active[i].channel_id]],
                    1, published_posts)

\* what publish_message returns after bot.send_* gave published_message_id
\* (0 is None): the result of add_published_post is not looked at
publish_return(published_message_id, inserted) == published_message_id

\* SendOk with a rejected insert written to the errors table
SendOkLogsDuplicate(p) ==
    /\ task[p].pc = "sending"
    /\ LET t == task[p]
           tgt == t.targets[t.idx]
           pub == Cardinality({r \in sent : RowKey(r) = Key(t.chat, t.id, tgt)}) + 1
           res == add_published_post(published_posts, statistics, t.chat, t.id, tgt, pub)
       IN  /\ sent' = sent \cup {[source_channel_id |-> t.chat, source_message_id |-> t.id,
                                  target_channel_id |-> tgt, published_message_id |-> pub]}
           /\ published_posts' = res.ledger
           /\ statistics' = res.stats
           /\ addlog' = addlog \cup {[key |-> Key(t.chat, t.id, tgt), pub |-> pub, ok |-> res.ok,
                                      returned |-> publish_return(pub, res.ok)]}
           /\ errors' = IF res.ok THEN errors ELSE log_error(errors, "database_error", tgt, t.id)
           /\ FanOut(p, [t EXCEPT !.writes = IF res.ledger # published_posts THEN @ + 1 ELSE @],
                     t.idx + 1, res.ledger)
    /\ UNCHANGED <<target_channels, filters, monvars, provider, faults, scanvars, evalvars>>

\* the transport accepts the message: bot.send_* returns the sent message,
\* add_published_post is called and the loop goes on
SendOk(p) ==
    /\ task[p].pc = "sending"
    /\ LET t == task[p]
           tgt == t.targets[t.idx]
           pub == Cardinality({r \in sent : RowKey(r) = Key(t.chat, t.id, tgt)}) + 1
           res == add_published_post(published_posts, statistics, t.chat, t.id, tgt, pub)
       IN  /\ sent' = sent \cup {[source_channel_id |-> t.chat, source_message_id |-> t.id,
                                  target_channel_id |-> tgt, published_message_id |-> pub]}
           /\ published_posts' = res.ledger
           /\ statistics' = res.stats
           /\ addlog' = addlog \cup {[key |-> Key(t.chat, t.id, tgt), pub |-> pub, ok |-> res.ok,
                                      returned |-> publish_return(pub, res.ok)]}
           /\ FanOut(p, [t EXCEPT !.writes = IF res.ledger # published_posts THEN @ + 1 ELSE @],
                     t.idx + 1, res.ledger)
    /\ UNCHANGED <<target_channels, filters, errors, monvars, provider, faults, scanvars, evalvars>>

\* the transport answers RetryAfter: publish_message sleeps e.retry_after
SendRetryAfter(p) ==
    /\ task[p].pc = "sending"
    /\ faults < MaxFaults
    /\ faults' = faults + 1
    /\ task' = [task EXCEPT ![p] = [@ EXCEPT !.pc = "sleeping",
                                             !.limited = @ \cup {task[p].targets[task[p].idx]}]]
    /\ UNCHANGED <<dbvars, monvars, provider, scanvars, histvars, ordvars, evalvars>>

\* the sleep ends: publish_message calls itself for the same target
RetryPublish(p) ==
    /\ task[p].pc = "sleeping"
    /\ FanOut(p, task[p], task[p].idx, published_posts)
    /\ UNCHANGED <<target_channels, filters, published_posts, statistics, errors, monvars,
                   provider, faults, scanvars, sent, addlog, evalvars>>

\* SendError with the row written although the send failed
SendErrorRecords(p) ==
    /\ task[p].pc = "sending"
    /\ faults < MaxFaults
    /\ faults' = faults + 1
    /\ errors' = log_error(errors, "publish_error", task[p].targets[task[p].idx], task[p].id)
    /\ LET t == task[p]
           res == add_published_post(published_posts, statistics, t.chat, t.id, t.targets[t.idx], 0)
       IN  /\ published_posts' = res.ledger
           /\ statistics' = res.stats
           /\ FanOut(p, [t EXCEPT !.failed = @ \cup {t.targets[t.idx]}], t.idx + 1, res.ledger)
    /\ UNCHANGED <<target_channels, filters, monvars, provider, scanvars, sent, addlog, evalvars>>

\* SendError with the exception escaping publish_message: the loop of
\* _process_message is left and process_error is logged
SendErrorAborts(p) ==
    /\ task[p].pc = "sending"
    /\ faults < MaxFaults
    /\ faults' = faults + 1
    /\ errors' = log_error(errors, "process_error", task[p].chat, task[p].id)
    /\ task' = [task EXCEPT ![p] = [@ EXCEPT !.pc = "done", !.failed = @ \cup {task[p].targets[task[p].idx]}]]
    /\ UNCHANGED <<source_channels, target_channels, filters, published_posts, statistics,
                   monvars, provider, scanvars, sent, addlog, ordvars, evalvars>>

\* the transport raises another error: it is logged, publish_message returns
\* None and the loop goes on with the next target
SendError(p) ==
    /\ task[p].pc = "sending"
    /\ faults < MaxFaults
    /\ faults' = faults + 1
    /\ errors' = log_error(errors, "publish_error", task[p].targets[task[p].idx], task[p].id)
    /\ FanOut(p, [task[p] EXCEPT !.failed = @ \cup {task[p].targets[task[p].idx]}],
              task[p].idx + 1, published_posts)
    /\ UNCHANGED <<target_channels, filters, published_posts, statistics, monvars,
                   provider, scanvars, sent, addlog, evalvars>>

\* _process_message has returned
Finish(p) ==
    /\ task[p].pc = "done"
    /\ task' = [task EXCEPT ![p] = IdleTask]
    /\ UNCHANGED <<dbvars, monvars, provider, faults, scanvars, histvars, ordvars, evalvars>>

\* the provider publishes a message in feed f; with a handler registered the
\* NewMessage update is on its way to the client
EmitWithin(f, cap) ==
    /\ Emitted < cap
    /\ \E message \in PipelineMessages :
          provider' = [provider EXCEPT ![f] = Append(@, message)]
    /\ IF f \in handlers
       THEN \E p \in PushTasks :
               /\ task[p].pc = "idle"
               /\ task' = [task EXCEPT ![p] = [IdleTask EXCEPT !.pc = "queued", !.chat = f,
                                                               !.id = Len(provider[f]) + 1]]
       ELSE task' = task
    /\ UNCHANGED <<dbvars, monvars, faults, scanvars, histvars, ordvars, evalvars>>

Emit(f) == EmitWithin(f, MaxMsgs)

\* the update is dispatched: the handler registered for the chat runs
\* _process_message with the channel_info its closure holds; with no handler
\* registered (any more) the update is dropped
PushHandler(p) ==
    /\ task[p].pc = "queued"
    /\ IF task[p].chat \in handlers
       THEN \E age \in Ages : ProcessMessage(p, task[p].chat, task[p].id, handler_info, age)
       ELSE /\ task' = [task EXCEPT ![p] = IdleTask]
            /\ UNCHANGED <<source_channels, ordvars>>
    /\ UNCHANGED <<target_channels, filters, published_posts, statistics, errors, monvars,
                   provider, faults, scanvars, sent, addlog, evalvars>>

\* _periodic_check wakes up and reads the active source channels
PeriodicCheck ==
    /\ task[Scanner].pc = "idle"
    /\ scan_channels = <<>>
    /\ scan_msgs = <<>>
    /\ get_source_channels(source_channels) # <<>>
    /\ scan_channels' = get_source_channels(source_channels)
    /\ UNCHANGED <<dbvars, monvars, provider, faults, task, scan_info, scan_msgs,
                   histvars, ordvars, evalvars>>

\* client.get_messages(entity, min_id, limit): newest first
get_messages(feed, min_id, limit) ==
    LET n == Len(provider[feed])
        count == IF n > min_id THEN n - min_id ELSE 0
        k == IF count > limit THEN limit ELSE count
    IN  [i \in 1..k |-> n - i + 1]

\* _check_channel_history for the next channel of the round, up to the
\* messages get_messages returns
CheckChannelHistory ==
    /\ task[Scanner].pc = "idle"
    /\ scan_msgs = <<>>
    /\ scan_channels # <<>>
    /\ scan_msgs' = get_messages(Head(scan_channels).channel_id,
                                 Head(scan_channels).last_scanned_id, HistoryLimit)
    /\ scan_info' = IF scan_msgs' = <<>> THEN NoInfo
                    ELSE [channel_id |-> Head(scan_channels).channel_id,
                          last_scanned_id |-> Head(scan_channels).last_scanned_id]
    /\ scan_channels' = Tail(scan_channels)
    /\ UNCHANGED <<dbvars, monvars, provider, faults, task, histvars, ordvars, evalvars>>

\* the loop of _check_channel_history hands the next message to _process_message
ScanMessage ==
    /\ task[Scanner].pc = "idle"
    /\ scan_msgs # <<>>
    /\ scan_msgs' = Tail(scan_msgs)
    /\ scan_info' = IF Tail(scan_msgs) = <<>> THEN NoInfo ELSE scan_info
    /\ IF Head(scan_msgs) > scan_info.last_scanned_id
       THEN \E age \in Ages :
               ProcessMessage(Scanner, scan_info.channel_id, Head(scan_msgs),
                              scan_info.channel_id, age)
       ELSE UNCHANGED <<task, source_channels, ordvars>>
    /\ UNCHANGED <<target_channels, filters, published_posts, statistics, errors, monvars,
                   provider, faults, scan_channels, sent, addlog, evalvars>>

\* ChannelMonitor.add_channel: add_source_channel, then _reload_handlers drops
\* every handler and _setup_monitored_channels starts over the active channels
\* (one add_channel at a time: the next is issued once the setup has ended)
AddChannel(f) ==
    /\ setup_todo = <<>>
    /\ source_channels' = add_source_channel(source_channels, f)
    /\ handlers' = {}
    /\ setup_todo' = get_source_channels(source_channels')
    /\ handler_info' = Head(get_source_channels(source_channels')).channel_id
    /\ UNCHANGED <<target_channels, filters, published_posts, statistics, errors, provider,
                   faults, task, scanvars, histvars, ordvars, evalvars>>

\* _setup_monitored_channels: get_entity returns and the handler of the
\* channel is registered; the loop variable moves on to the next channel
SetupChannel ==
    /\ setup_todo # <<>>
    /\ handlers' = handlers \cup {Head(setup_todo).channel_id}
    /\ setup_todo' = Tail(setup_todo)
    /\ handler_info' = IF Tail(setup_todo) = <<>> THEN Head(setup_todo).channel_id
                       ELSE Head(Tail(setup_todo)).channel_id
    /\ UNCHANGED <<dbvars, provider, faults, task, scanvars, histvars, ordvars, evalvars>>

\* an operator adds a target channel
AddTargetChannel(t) ==
    /\ target_channels' = add_target_channel(target_channels, t)
    /\ UNCHANGED <<source_channels, filters, published_posts, statistics, errors, monvars,
                   provider, faults, task, scanvars, histvars, ordvars, evalvars>>

\* an operator adds a filter rule (Database.add_filter)
AddFilter(rule) ==
    /\ Len(filters) < MaxFilterRows
    /\ filters' = Append(filters, rule)
    /\ UNCHANGED <<source_channels, target_channels, published_posts, statistics, errors,
                   monvars, provider, faults, task, scanvars, histvars, ordvars, evalvars>>

\* Stop with the high-water mark written on the way out
StopAdvances ==
    /\ \E p \in Tasks : task[p].pc \in {"sending", "sleeping"}
    /\ task' = [p \in Tasks |->
                  IF task[p].pc \in {"sending", "sleeping"}
                  THEN [task[p] EXCEPT !.pc = "done", !.verdict = "cancelled"]
                  ELSE IF task[p].pc = "queued" THEN IdleTask ELSE task[p]]
    /\ source_channels' =
          LET p == CHOOSE q \in Tasks : task[q].pc \in {"sending", "sleeping"}
          IN  update_last_scanned_id(source_channels, task[p].info, task[p].id)
    /\ scan_channels' = <<>>
    /\ scan_info' = NoInfo
    /\ scan_msgs' = <<>>
    /\ UNCHANGED <<target_channels, filters, published_posts, statistics, errors, monvars,
                   provider, faults, histvars, ordvars, evalvars>>

\* Application.stop cancels every task: CancelledError is raised at the await
\* each _process_message call is suspended at and, not being an Exception,
\* passes every except clause of publish_message and _process_message; updates
\* not yet dispatched are lost and the periodic check ends.  The steps after
\* it are those of the application started again.
Stop ==
    /\ \E p \in Tasks : task[p].pc \in {"sending", "sleeping"}
    /\ task' = [p \in Tasks |->
                  IF task[p].pc \in {"sending", "sleeping"}
                  THEN [task[p] EXCEPT !.pc = "done", !.verdict = "cancelled"]
                  ELSE IF task[p].pc = "queued" THEN IdleTask ELSE task[p]]
    /\ scan_channels' = <<>>
    /\ scan_info' = NoInfo
    /\ scan_msgs' = <<>>
    /\ UNCHANGED <<dbvars, monvars, provider, faults, histvars, ordvars, evalvars>>

Next ==
    \/ \E p \in Tasks : SendOk(p)
    \/ \E p \in Tasks : SendRetryAfter(p)
    \/ \E p \in Tasks : RetryPublish(p)
    \/ \E p \in Tasks : SendError(p)
    \/ \E p \in Tasks : Finish(p)
    \/ \E f \in Feeds : Emit(f)
    \/ \E p \in PushTasks : PushHandler(p)
    \/ PeriodicCheck
    \/ CheckChannelHistory
    \/ ScanMessage
    \/ \E f \in Feeds : AddChannel(f)
    \/ SetupChannel
    \/ \E t \in Targets : AddTargetChannel(t)
    \/ \E rule \in PipelineRules : AddFilter(rule)
    \/ Stop

Spec == Init /\ [][Next]_vars

\* ------------------------------------------- the relay once it is configured
\* the target_channels table after the operator added one or more targets
TargetLists ==
    {s \in UNION {[1..n -> Targets] : n \in 1..NumTargets} :
        \A i, j \in 1..Len(s) : i # j => s[i] # s[j]}

RECURSIVE AddSources(_, _)
\* add_source_channel for each id in turn
AddSources(rows, ids) ==
    IF ids = <<>> THEN rows ELSE AddSources(add_source_channel(rows, Head(ids)), Tail(ids))

RECURSIVE AddTargets(_, _)
\* add_target_channel for each id in turn
AddTargets(rows, ids) ==
    IF ids = <<>> THEN rows ELSE AddTargets(add_target_channel(rows, Head(ids)), Tail(ids))

\* the state after the targets (and possibly a filter) were added and
\* add_channel was called for every feed: _reload_handlers has dropped the
\* handlers and _setup_monitored_channels is about to register them again
InitConfigured ==
    /\ source_channels = AddSources(<<>>, [i \in 1..NumFeeds |-> i])
    /\ \E ts \in TargetLists : target_channels = AddTargets(<<>>, ts)
    /\ filters \in {<<>>} \cup {<<rule>> : rule \in PipelineRules}
    /\ published_posts = {}
    /\ statistics = [f \in Feeds |-> 0]
    /\ errors = EmptyBag
    /\ handlers = {}
    /\ handler_info = Head(get_source_channels(source_channels)).channel_id
    /\ setup_todo = get_source_channels(source_channels)
    /\ provider = [f \in Feeds |-> <<>>]
    /\ faults = 0
    /\ task = [p \in Tasks |-> IdleTask]
    /\ scan_channels = <<>>
    /\ scan_info = NoInfo
    /\ scan_msgs = <<>>
    /\ sent = {}
    /\ addlog = {}
    /\ attempts = {}
    /\ processed = {}
    /\ in_text = <<>>
    /\ out_pass = NoResult
    /\ in_message = NoMessage
    /\ in_info = NoChannelInfo
    /\ out_caption = NoCaption
    /\ in_max_length = 0

\* ---------------------------------------------- a backlog of several messages
EmitBacklog(f) == EmitWithin(f, MaxBacklog)

NextBacklog ==
    \/ \E f \in Feeds : EmitBacklog(f)
    \/ \E p \in PushTasks : PushHandler(p)
    \/ PeriodicCheck
    \/ CheckChannelHistory
    \/ ScanMessage
    \/ \E p \in Tasks : SendOk(p)
    \/ \E p \in Tasks : Finish(p)
    \/ SetupChannel

BacklogSpec == InitConfigured /\ [][NextBacklog]_vars

\* ------------------------------------------- a feed added to a running relay
\* the feeds of the provider; all but the last are subscribed from the start
SubFeeds == 1..NumSubscribed

\* the state of a relay running with the feeds 1..NumSubscribed-1: start() has
\* run _setup_monitored_channels to its end, so every handler is registered
\* and the loop variable channel_info is left at the last channel
InitSubscribed ==
    /\ source_channels = AddSources(<<>>, [i \in 1..(NumSubscribed - 1) |-> i])
    /\ \E ts \in TargetLists : target_channels = AddTargets(<<>>, ts)
    /\ filters = <<>>
    /\ published_posts = {}
    /\ statistics = [f \in SubFeeds |-> 0]
    /\ errors = EmptyBag
    /\ handlers = 1..(NumSubscribed - 1)
    /\ handler_info = NumSubscribed - 1
    /\ setup_todo = <<>>
    /\ provider = [f \in SubFeeds |-> <<>>]
    /\ faults = 0
    /\ task = [p \in Tasks |-> IdleTask]
    /\ scan_channels = <<>>
    /\ scan_info = NoInfo
    /\ scan_msgs = <<>>
    /\ sent = {}
    /\ addlog = {}
    /\ attempts = {}
    /\ processed = {}
    /\ in_text = <<>>
    /\ out_pass = NoResult
    /\ in_message = NoMessage
    /\ in_info = NoChannelInfo
    /\ out_caption = NoCaption
    /\ in_max_length = 0

NextSubscribe ==
    \/ \E f \in SubFeeds : AddChannel(f)
    \/ SetupChannel
    \/ \E f \in SubFeeds : Emit(f)
    \/ \E p \in PushTasks : PushHandler(p)
    \/ PeriodicCheck
    \/ CheckChannelHistory
    \/ ScanMessage
    \/ \E p \in Tasks : SendOk(p)
    \/ \E p \in Tasks : Finish(p)

SubscribeSpec == InitSubscribed /\ [][NextSubscribe]_vars

\* ------------------------------------------------ targets taken out of use
\* an operator deactivates a target: the row stays, is_active is cleared
\* (the statement is not among the operations of database.py)
DeactivateTarget(t) ==
    /\ \E i \in 1..Len(target_channels) :
          target_channels[i].channel_id = t /\ target_channels[i].is_active
    /\ target_channels' = [i \in 1..Len(target_channels) |->
                              IF target_channels[i].channel_id = t
                              THEN [target_channels[i] EXCEPT !.is_active = FALSE]
                              ELSE target_channels[i]]
    /\ UNCHANGED <<source_channels, filters, published_posts, statistics, errors, monvars,
                   provider, faults, task, scanvars, histvars, ordvars, evalvars>>

NextTarget ==
    \/ \E t \in Targets : DeactivateTarget(t)
    \/ \E t \in Targets : AddTargetChannel(t)
    \/ \E f \in Feeds : Emit(f)
    \/ \E p \in PushTasks : PushHandler(p)
    \/ PeriodicCheck
    \/ CheckChannelHistory
    \/ ScanMessage
    \/ \E p \in Tasks : SendOk(p)
    \/ \E p \in Tasks : Finish(p)
    \/ SetupChannel

TargetSpec == InitConfigured /\ [][NextTarget]_vars

\* ------------------------------------------------ a transport that throttles
\* the target the transport keeps answering RetryAfter for
ThrottledTarget == 1

\* bot.send_* returns for a target that is not throttled
SendOkUnthrottled(p) ==
    /\ task[p].pc = "sending"
    /\ task[p].targets[task[p].idx] # ThrottledTarget
    /\ SendOk(p)

\* bot.send_* raises RetryAfter, every time it is called for the throttled
\* target: publish_message sleeps e.retry_after
SendThrottled(p) ==
    /\ task[p].pc = "sending"
    /\ task[p].targets[task[p].idx] = ThrottledTarget
    /\ task' = [task EXCEPT ![p] = [@ EXCEPT !.pc = "sleeping",
                                             !.limited = @ \cup {ThrottledTarget}]]
    /\ UNCHANGED <<dbvars, monvars, provider, faults, scanvars, histvars, ordvars, evalvars>>

NextThrottle ==
    \/ \E f \in Feeds : Emit(f)
    \/ \E p \in PushTasks : PushHandler(p)
    \/ PeriodicCheck
    \/ CheckChannelHistory
    \/ ScanMessage
    \/ \E p \in Tasks : SendOkUnthrottled(p)
    \/ \E p \in Tasks : SendThrottled(p)
    \/ \E p \in Tasks : RetryPublish(p)
    \/ \E p \in Tasks : Finish(p)
    \/ SetupChannel

\* the event loop runs every coroutine that is ready, the transport answers
\* every request and every sleep ends
ThrottleSpec ==
    /\ InitConfigured
    /\ [][NextThrottle]_vars
    /\ \A p \in Tasks :
          /\ WF_vars(SendOkUnthrottled(p))
          /\ WF_vars(SendThrottled(p))
          /\ WF_vars(RetryPublish(p))
          /\ WF_vars(Finish(p))

\* ------------------------------------------------- filter evaluation alone
\* the rows the filter is evaluated against, and the rule lists built of them
EvalValues(ft) == IF ft = "regex" THEN {<<"\\D">>, <<"(">>, <<"\\T">>} ELSE {<<"a">>, <<"A", "1">>}
EvalRows == {[filter_type |-> ft, value |-> v, is_case_sensitive |-> cs, is_active |-> ac] :
                ft \in {"include", "exclude", "regex"}, v \in {<<"a">>, <<"A", "1">>, <<"\\D">>, <<"(">>, <<"\\T">>},
                cs \in BOOLEAN, ac \in BOOLEAN}
EvalRules == {r \in EvalRows : r.value \in EvalValues(r.filter_type)}
EvalRuleLists == UNION {[1..n -> EvalRules] : n \in 0..MaxRules}

InitEval ==
    /\ source_channels = <<>>
    /\ target_channels = <<>>
    /\ filters \in EvalRuleLists
    /\ published_posts = {}
    /\ statistics = [f \in Feeds |-> 0]
    /\ errors = EmptyBag
    /\ handlers = {}
    /\ handler_info = 0
    /\ setup_todo = <<>>
    /\ provider = [f \in Feeds |-> <<>>]
    /\ faults = 0
    /\ task = [p \in Tasks |-> IdleTask]
    /\ scan_channels = <<>>
    /\ scan_info = NoInfo
    /\ scan_msgs = <<>>
    /\ sent = {}
    /\ addlog = {}
    /\ attempts = {}
    /\ processed = {}
    /\ in_text \in Texts
    /\ out_pass = NoResult
    /\ in_message = NoMessage
    /\ in_info = NoChannelInfo
    /\ out_caption = NoCaption
    /\ in_max_length = 0

\* a call of MessageFilter.check_message(in_text)
Evaluate ==
    /\ out_pass.fn = "none"
    /\ out_pass' = [fn |-> "check_message", result |-> check_message(in_text, filters),
                    calls |-> 1]
    /\ UNCHANGED <<dbvars, monvars, provider, faults, task, scanvars, histvars, ordvars, in_text, capvars>>

\* a call of TelegramMonitorBot.check_message_filters(in_text); the filters
\* table of that variant holds include and exclude rows only
EvaluateSimple ==
    /\ out_pass.fn = "none"
    /\ \A i \in 1..Len(filters) :
          filters[i].filter_type \in {"include", "exclude"} /\ filters[i].is_active
    /\ out_pass' = [fn |-> "check_message_filters",
                    result |-> check_message_filters(in_text, filters), calls |-> 1]
    /\ UNCHANGED <<dbvars, monvars, provider, faults, task, scanvars, histvars, ordvars, in_text, capvars>>

\* EvaluateAgain with a malformed pattern reported to the errors table
EvaluateAgainLogging ==
    /\ out_pass.fn = "check_message"
    /\ out_pass.calls = 1
    /\ out_pass' = [fn |-> "check_message", result |-> check_message(in_text, filters),
                    calls |-> 2]
    /\ errors' = IF \E i \in 1..Len(filters) : filters[i].filter_type = "regex"
                 THEN log_error(errors, "filter_error", 0, 0) ELSE errors
    /\ UNCHANGED <<source_channels, target_channels, filters, published_posts, statistics,
                   monvars, provider, faults, task, scanvars, histvars, ordvars, in_text,
                   capvars>>

\* a second call of MessageFilter.check_message(in_text): _load_filters reads
\* the rules again and the loop runs again
EvaluateAgain ==
    /\ out_pass.fn = "check_message"
    /\ out_pass.calls = 1
    /\ out_pass' = [fn |-> "check_message", result |-> check_message(in_text, filters),
                    calls |-> 2]
    /\ UNCHANGED <<dbvars, monvars, provider, faults, task, scanvars, histvars, ordvars,
                   in_text, capvars>>

NextEval == Evaluate \/ EvaluateSimple \/ EvaluateAgain

FilterSpec == InitEval /\ [][NextEval]_vars

\* -------------------------------------------------------- caption rendering
\* A character outside ASCII is written as one element naming its code point.
Rep(c, n) == [i \in 1..n |-> c]

RECURSIVE Join(_, _)
\* sep.join(parts)
Join(parts, sep) ==
    IF parts = <<>> THEN <<>>
    ELSE IF Len(parts) = 1 THEN Head(parts)
    ELSE Head(parts) \o sep \o Join(Tail(parts), sep)

\* filter(None, parts): the empty strings are dropped
NonEmpty(parts) == SelectSeq(parts, LAMBDA x : x # <<>>)

DigitChars == <<"0", "1", "2", "3", "4", "5", "6", "7", "8", "9">>

RECURSIVE DecStr(_)
\* str(n) of a positive integer
DecStr(n) == IF n < 10 THEN <<DigitChars[n + 1]>>
             ELSE DecStr(n \div 10) \o <<DigitChars[(n % 10) + 1]>>

\* %d, %m, %H, %M and %Y of strftime
TwoDigits(n) == <<DigitChars[(n \div 10) + 1], DigitChars[(n % 10) + 1]>>
FourDigits(n) == TwoDigits(n \div 100) \o TwoDigits(n % 100)

\* message.date.strftime("%d.%m.%Y %H:%M")
strftime(date) ==
    TwoDigits(date.day) \o <<".">> \o TwoDigits(date.month) \o <<".">> \o FourDigits(date.year)
    \o <<" ">> \o TwoDigits(date.hour) \o <<":">> \o TwoDigits(date.minute)

Ellipsis == <<".", ".", ".">>
ParagraphBreak == <<"\n", "\n">>
HeaderOpen == <<"U+1F4E2", " ", "<", "b", ">", "U+0418", "U+0437", ":", "<", "/", "b", ">", " ">>
AnchorOpen == <<"<", "a", " ", "h", "r", "e", "f", "=", "'">>
AnchorMid == <<"'", ">">>
AnchorClose == <<"<", "/", "a", ">">>
TMe == <<"h", "t", "t", "p", "s", ":", "/", "/", "t", ".", "m", "e", "/">>
OriginalLabel == <<"U+041E", "U+0440", "U+0438", "U+0433", "U+0438", "U+043D", "U+0430", "U+043B">>
LinkOpen == <<"U+1F517", " ">>
TimeOpen == <<"U+1F550", " ">>

\* PostPublisher._get_channel_link (<<>> is None)
get_channel_link(info) ==
    IF info.invite_link # <<>> THEN info.invite_link
    ELSE IF info.username # <<>> THEN TMe \o info.username
    ELSE <<>>

\* PostPublisher._get_original_link
get_original_link(message, info) ==
    IF info.username # <<>> /\ message.id # 0
    THEN TMe \o info.username \o <<"/">> \o DecStr(message.id)
    ELSE <<>>

\* \w of the re module
WordChars == Alphabet \cup {"_"}

\* re.findall(r'#\w+', text), as the set built of it
findall_hashtags(text) ==
    LET starts == {i \in 1..(Len(text) - 1) : text[i] = "#" /\ text[i + 1] \in WordChars}
        stops(i) == {j \in (i + 1)..Len(text) : text[j] \notin WordChars}
        last(i) == IF stops(i) = {} THEN Len(text)
                   ELSE (CHOOSE j \in stops(i) : \A k \in stops(i) : j <= k) - 1
    IN  {SubSeq(text, i, last(i)) : i \in starts}

\* list(set(...)): the elements of the set in one of its orders
Listings(S) ==
    {s \in [1..Cardinality(S) -> S] : \A i, j \in 1..Cardinality(S) : i # j => s[i] # s[j]}

\* list[:n]
Prefix(s, n) == SubSeq(s, 1, IF Len(s) < n THEN Len(s) ELSE n)

\* the attribution line of _format_caption
caption_header(info) ==
    IF info.title = <<>> THEN <<>>
    ELSE IF get_channel_link(info) # <<>>
    THEN HeaderOpen \o AnchorOpen \o get_channel_link(info) \o AnchorMid \o info.title \o AnchorClose
    ELSE HeaderOpen \o info.title

\* caption_body cutting a text of exactly MAX_POST_LENGTH - 200 as well
caption_body_inclusive(text) ==
    LET max_length == MAX_POST_LENGTH - CaptionReserve
    IN  IF Len(text) >= max_length THEN SubSeq(text, 1, max_length) \o Ellipsis ELSE text

\* the body of _format_caption: the text, cut when longer than
\* MAX_POST_LENGTH - 200
caption_body(text) ==
    LET max_length == MAX_POST_LENGTH - CaptionReserve
    IN  IF Len(text) > max_length THEN SubSeq(text, 1, max_length) \o Ellipsis ELSE text

\* the permalink line of _format_caption
caption_link(message, info) ==
    IF get_original_link(message, info) = <<>> THEN <<>>
    ELSE LinkOpen \o AnchorOpen \o get_original_link(message, info) \o AnchorMid
         \o OriginalLabel \o AnchorClose

\* the time line of _format_caption
caption_time(message) ==
    IF message.date = NoDate THEN <<>> ELSE TimeOpen \o strftime(message.date)

\* PostPublisher._format_caption, with the order list(set(hashtags)) came out in
format_caption(message, info, tag_list) ==
    LET caption_parts == <<caption_header(info),
                           caption_body(message.text),
                           caption_link(message, info),
                           Join(Prefix(tag_list, MaxHashtags), <<" ">>),
                           caption_time(message)>>
    IN  [fn |-> "_format_caption", raised |-> FALSE,
         parts |-> NonEmpty(caption_parts),
         text |-> Join(NonEmpty(caption_parts), ParagraphBreak), delivered |-> {}]

\* TelegramMonitorBot.format_message: set(hashtags)[:3] raises TypeError as
\* soon as the text holds a hashtag
format_message(message, info) ==
    LET source == IF info.title = <<>> THEN <<>>
                  ELSE IF info.username # <<>>
                  THEN HeaderOpen \o AnchorOpen \o TMe \o info.username \o AnchorMid
                       \o info.title \o AnchorClose
                  ELSE HeaderOpen \o info.title
        text == IF Len(message.text) > SimpleTextLimit
                THEN SubSeq(message.text, 1, SimpleTextLimit) \o Ellipsis
                ELSE message.text
        parts == <<source, text, caption_link(message, info), caption_time(message)>>
    IN  IF findall_hashtags(text) # {}
        THEN [fn |-> "format_message", raised |-> TRUE, parts |-> <<>>, text |-> <<>>,
              delivered |-> {}]
        ELSE [fn |-> "format_message", raised |-> FALSE,
              parts |-> NonEmpty(parts),
              text |-> Join(NonEmpty(parts), ParagraphBreak), delivered |-> {}]

\* the messages and channel infos the rendering is given
CaptionLengths == {0, 1, MAX_POST_LENGTH - CaptionReserve, MAX_POST_LENGTH - CaptionReserve + 1,
                   MAX_POST_LENGTH, MAX_POST_LENGTH + 1}
CaptionTexts ==
    {Rep("a", n) : n \in CaptionLengths}
    \cup {<<"#">> \o Rep("a", n - 1) : n \in CaptionLengths \ {0}}
    \cup {<<"#", "a", " ", "#", "1">>}
SomeDate == [day |-> 2, month |-> 11, year |-> 2026, hour |-> 9, minute |-> 5]
CaptionMessages ==
    {[text |-> x, id |-> 7, date |-> d] : x \in CaptionTexts, d \in {NoDate, SomeDate}}
CaptionInfos ==
    {[title |-> ti, username |-> u, invite_link |-> <<>>] :
        ti \in {<<>>, <<"A">>, Rep("A", MaxTitleLen)},
        u \in {<<>>, <<"a">>, Rep("a", MaxUsernameLen)}}
    \cup {[title |-> <<"A">>, username |-> <<"a">>, invite_link |-> <<"i">>]}

InitCaption ==
    /\ source_channels = <<>>
    /\ target_channels \in {<<>>} \cup {AddTargets(<<>>, ts) : ts \in TargetLists}
    /\ filters = <<>>
    /\ published_posts = {}
    /\ statistics = [f \in Feeds |-> 0]
    /\ errors = EmptyBag
    /\ handlers = {}
    /\ handler_info = 0
    /\ setup_todo = <<>>
    /\ provider = [f \in Feeds |-> <<>>]
    /\ faults = 0
    /\ task = [p \in Tasks |-> IdleTask]
    /\ scan_channels = <<>>
    /\ scan_info = NoInfo
    /\ scan_msgs = <<>>
    /\ sent = {}
    /\ addlog = {}
    /\ attempts = {}
    /\ processed = {}
    /\ in_text = <<>>
    /\ out_pass = NoResult
    /\ in_message \in CaptionMessages
    /\ in_info \in CaptionInfos
    /\ out_caption = NoCaption
    /\ in_max_length = 0

\* a call of PostPublisher._format_caption(in_message, in_info)
FormatCaption ==
    /\ out_caption.fn = "none"
    /\ \E tag_list \in Listings(findall_hashtags(in_message.text)) :
          out_caption' = format_caption(in_message, in_info, tag_list)
    /\ UNCHANGED <<dbvars, monvars, provider, faults, task, scanvars, histvars, ordvars,
                   in_text, out_pass, in_message, in_info, in_max_length>>

\* a call of TelegramMonitorBot.format_message(in_message, in_info)
FormatMessage ==
    /\ out_caption.fn = "none"
    /\ in_info.invite_link = <<>>
    /\ out_caption' = format_message(in_message, in_info)
    /\ UNCHANGED <<dbvars, monvars, provider, faults, task, scanvars, histvars, ordvars,
                   in_text, out_pass, in_message, in_info, in_max_length>>

\* the channel ids get_target_channels of the simplified variant returns
ActiveRows(rows) == {rows[i].channel_id : i \in {k \in 1..Len(rows) : rows[k].is_active}}

\* PostPublisher._prepare_media: one input media carrying the caption built
\* from an empty source_channel_info, or no media at all
prepare_media(message, media, tag_list) ==
    IF media \in {"photo", "video", "document"}
    THEN <<[media |-> media, caption |-> format_caption(message, NoChannelInfo, tag_list)]>>
    ELSE <<>>

\* the bot method publish_message calls for a single media of the kind
SendMethod(media) ==
    CASE media = "photo" -> "send_photo"
      [] media = "video" -> "send_video"
      [] media = "document" -> "send_document"
      [] OTHER -> "send_message"
SendMethods == {SendMethod(media) : media \in MediaKinds}

\* the caption or text publish_message hands to the transport
publish_payload(message, info, media, tag_list) ==
    LET caption == format_caption(message, info, tag_list)
        media_group == prepare_media(message, media, tag_list)
    IN  IF media_group # <<>>
        THEN [media_group[1].caption EXCEPT !.fn = SendMethod(media_group[1].media)]
        ELSE [caption EXCEPT !.fn = "send_message"]

\* a call of PostPublisher.publish_message for in_message carrying some media,
\* up to the payload handed to bot.send_*
PublishPayload ==
    /\ out_caption.fn = "none"
    /\ \E media \in MediaKinds :
          \E tag_list \in Listings(findall_hashtags(in_message.text)) :
              out_caption' = publish_payload(in_message, in_info, media, tag_list)
    /\ UNCHANGED <<dbvars, monvars, provider, faults, task, scanvars, histvars, ordvars,
                   in_text, out_pass, in_message, in_info, in_max_length>>

\* the chat of in_message
CaptionChat == 1

\* TelegramMonitorBot.publish_message with a transport that accepts every
\* send: the caption is rendered once, before the loop over the targets, and
\* an exception of format_message ends the call with no target reached
simple_publish_message(message, info, rows, ledger) ==
    LET caption == format_message(message, info)
        targets == ActiveRows(rows)
        open == {t \in targets : ~is_post_published(ledger, CaptionChat, message.id, t)}
        delivered == IF caption.raised THEN {} ELSE open
    IN  [caption |-> [caption EXCEPT !.fn = "publish_message", !.delivered = delivered],
         ledger |-> ledger \cup {[source_channel_id |-> CaptionChat,
                                  source_message_id |-> message.id,
                                  target_channel_id |-> t,
                                  published_message_id |-> 1] : t \in delivered}]

\* a call of TelegramMonitorBot.publish_message(in_message, in_info)
PublishSimple ==
    /\ out_caption.fn = "none"
    /\ in_info.invite_link = <<>>
    /\ LET res == simple_publish_message(in_message, in_info, target_channels, published_posts)
       IN  /\ out_caption' = res.caption
           /\ published_posts' = res.ledger
    /\ UNCHANGED <<source_channels, target_channels, filters, statistics, errors, monvars,
                   provider, faults, task, scanvars, histvars, ordvars,
                   in_text, out_pass, in_message, in_info, in_max_length>>

NextCaption == FormatCaption \/ FormatMessage \/ PublishPayload \/ PublishSimple

CaptionSpec == InitCaption /\ [][NextCaption]_vars

\* ------------------------------------------------------------------ utils.py
\* text[:stop] of a Python string: a negative stop counts from the end
slice_to(s, stop) ==
    LET n == IF stop < 0
             THEN (IF Len(s) + stop < 0 THEN 0 ELSE Len(s) + stop)
             ELSE (IF stop > Len(s) THEN Len(s) ELSE stop)
    IN  SubSeq(s, 1, n)

\* utils.truncate_text
truncate_text(text, max_len) ==
    IF Len(text) <= max_len THEN text ELSE slice_to(text, max_len - 3) \o Ellipsis

\* the texts and lengths truncate_text is given
TruncTexts == Texts \cup {Rep("a", n) : n \in 0..MaxTruncText}
TruncLengths == 0..MaxTruncLen

InitTruncate ==
    /\ source_channels = <<>>
    /\ target_channels = <<>>
    /\ filters = <<>>
    /\ published_posts = {}
    /\ statistics = [f \in Feeds |-> 0]
    /\ errors = EmptyBag
    /\ handlers = {}
    /\ handler_info = 0
    /\ setup_todo = <<>>
    /\ provider = [f \in Feeds |-> <<>>]
    /\ faults = 0
    /\ task = [p \in Tasks |-> IdleTask]
    /\ scan_channels = <<>>
    /\ scan_info = NoInfo
    /\ scan_msgs = <<>>
    /\ sent = {}
    /\ addlog = {}
    /\ attempts = {}
    /\ processed = {}
    /\ in_text \in TruncTexts
    /\ out_pass = NoResult
    /\ in_message = NoMessage
    /\ in_info = NoChannelInfo
    /\ out_caption = NoCaption
    /\ in_max_length \in TruncLengths

\* a call of truncate_text(in_text, in_max_length)
TruncateText ==
    /\ out_caption.fn = "none"
    /\ out_caption' = [NoCaption EXCEPT !.fn = "truncate_text",
                                        !.text = truncate_text(in_text, in_max_length)]
    /\ UNCHANGED <<dbvars, monvars, provider, faults, task, scanvars, histvars, ordvars,
                   in_text, out_pass, in_message, in_info, in_max_length>>

NextTruncate == TruncateText

TruncateSpec == InitTruncate /\ [][NextTruncate]_vars

\* ================================================================== claims
Busy(p) == task[p].pc \notin {"idle", "queued"}
RecordsOf(key) == {r \in published_posts : RowKey(r) = key}
ThresholdHours == StaleDays * HoursPerDay

\* C1: for every (feed, item, target) triple the transport completes at most
\* one successful send, whatever the interleaving of the push handler, the
\* backlog scan and retries.
C1_AtMostOneSend ==
    \A a, b \in sent : RowKey(a) = RowKey(b) => a = b

\* C2: the ledger holds at most one row per composite key; of the
\* add_published_post calls for one key exactly one inserts, and every other
\* one returns False and leaves the stored row as it was.
C2_LedgerKeyUnique ==
    /\ \A a, b \in published_posts : RowKey(a) = RowKey(b) => a = b
    /\ \A c, d \in addlog : (c.key = d.key /\ c.ok /\ d.ok) => c = d
    /\ \A c \in addlog :
          IF c.ok
          THEN \E r \in published_posts : RowKey(r) = c.key /\ r.published_message_id = c.pub
          ELSE \E r \in published_posts : RowKey(r) = c.key /\ r.published_message_id # c.pub

\* C2 witness: an add_published_post call lost the insert race
C2_Witness == \E c \in addlog : ~c.ok

\* C3: once a row is in the ledger, is_post_published stays true for its key
\* and the row (its published_message_id included) is in the ledger after
\* every step, re-adding a source or target channel included.
C3_LedgerAppendOnly ==
    [][\A r \in published_posts :
          /\ r \in published_posts'
          /\ is_post_published(published_posts', r.source_channel_id, r.source_message_id,
                               r.target_channel_id)]_vars

\* C3 witness: the feed of a ledger row was re-added (its mark is back at 0)
\* after the processing that wrote the row had ended
C3_Witness ==
    /\ \A p \in Tasks : task[p].pc = "idle"
    /\ \E r \in published_posts : \E i \in 1..Len(source_channels) :
          /\ source_channels[i].channel_id = r.source_channel_id
          /\ source_channels[i].last_scanned_id = 0

\* C4: a ledger row exists only for a send the transport completed with that
\* published message id; a target whose send raised an error has no row
\* unless some send to it succeeded.
C4_RecordOnlyAfterSend ==
    \A r \in published_posts : r \in sent

\* C4 witness: a fan-out ended with one target failed and without a row, and
\* another target delivered and recorded
C4_Witness ==
    \E p \in Tasks :
        /\ task[p].pc = "done"
        /\ \E x \in task[p].failed : RecordsOf(Key(task[p].chat, task[p].id, x)) = {}
        /\ task[p].writes > 0

\* an include rule is satisfied iff its value is a substring of the text, an
\* exclude rule iff it is not, case folded unless is_case_sensitive
C5_RuleSatisfied(text, r) ==
    LET v == IF r.is_case_sensitive THEN r.value ELSE Lower(r.value)
        x == IF r.is_case_sensitive THEN text ELSE Lower(text)
    IN  IF r.filter_type = "include" THEN Contains(x, v) ELSE ~Contains(x, v)

\* C5: check_message returns true iff every active include rule's value is a
\* substring of the text and no active exclude rule's value is, compared
\* case-insensitively unless is_case_sensitive is set (rule sets of include
\* and exclude rules).
C5_PassIffAllRules ==
    (/\ out_pass.fn = "check_message"
     /\ \A i \in 1..Len(filters) : filters[i].filter_type \in {"include", "exclude"})
    => (out_pass.result <=>
           \A i \in 1..Len(filters) :
               filters[i].is_active => C5_RuleSatisfied(in_text, filters[i]))

\* C6: with zero active rules the filter passes every event, the media-only
\* event with empty text included.
C6_EmptyChainAllowsAll ==
    (out_pass.fn # "none" /\ get_filters(filters) = <<>>) => out_pass.result

\* C7: an event the filter chain rejects causes no transport call and no
\* ledger write.
C7_FilteredNeverPublished ==
    \A p \in Tasks :
        (Busy(p) /\ task[p].rejected) =>
            /\ task[p].pc = "done"
            /\ task[p].calls = 0
            /\ task[p].writes = 0

\* C7 witness: a fresh event with text was rejected by a configured rule while
\* an active target exists
C7_Witness ==
    \E p \in Tasks :
        /\ task[p].pc = "done"
        /\ task[p].verdict = "filtered"
        /\ provider[task[p].chat][task[p].id].text # <<>>
        /\ get_target_channels(target_channels) # <<>>

\* C8: an event older than one day is dropped by the staleness check, so its
\* processing makes no transport call and no ledger write, and an event not
\* older than that is never dropped as stale.
C8_StaleDropped ==
    \A p \in Tasks :
        Busy(p) =>
            IF task[p].age > ThresholdHours
            THEN task[p].calls = 0 /\ task[p].writes = 0
            ELSE task[p].verdict # "stale"

\* C9: a delivery attempt for a key the ledger already holds returns without
\* a transport call, and the ledger holds exactly one row for the key.
C9_DuplicateSkipped ==
    \A p \in Tasks :
        /\ task[p].dup_calls = 0
        /\ \A x \in task[p].skipped :
              Cardinality(RecordsOf(Key(task[p].chat, task[p].id, x))) = 1

\* C9 witness: an attempt was skipped as a duplicate
C9_Witness == \E p \in Tasks : task[p].skipped # {}

\* C10: when the fan-out of an event ends, every target of its list has been
\* attempted whatever errors other targets raised, and every target that
\* neither failed nor was skipped has its ledger row.
C10_Isolation ==
    \A p \in Tasks :
        (task[p].pc = "done" /\ task[p].verdict = "fanout") =>
            /\ task[p].tried = {task[p].targets[k] : k \in 1..Len(task[p].targets)}
            /\ \A x \in task[p].tried \ (task[p].failed \cup task[p].skipped) :
                  RecordsOf(Key(task[p].chat, task[p].id, x)) # {}

\* C10 witness: the first target raised an error and the second was delivered
C10_Witness ==
    \E p \in Tasks :
        /\ task[p].pc = "done"
        /\ Len(task[p].targets) = 2
        /\ task[p].targets[1] \in task[p].failed
        /\ task[p].targets[2] \notin (task[p].failed \cup task[p].skipped)
        /\ RecordsOf(Key(task[p].chat, task[p].id, task[p].targets[2])) # {}

\* the high-water mark the store holds for feed f (0 without a row)
Mark(rows, f) ==
    IF \E i \in 1..Len(rows) : rows[i].channel_id = f
    THEN rows[CHOOSE i \in 1..Len(rows) : rows[i].channel_id = f].last_scanned_id
    ELSE 0

TargetsOf(t) == {t.targets[k] : k \in 1..Len(t.targets)}

\* the target the publish_message call in progress is for
InFlight(t) == IF t.pc \in {"sending", "sleeping"} THEN {t.targets[t.idx]} ELSE {}

\* C11: a rate-limited target does not delay the other targets of the event:
\* while the wait for the throttled target runs, no other target of the list
\* is still waiting for its first attempt, wherever the throttled target sits
\* in the list.
C11_ThrottledDoesNotDelay ==
    \A p \in Tasks :
        task[p].pc = "sleeping" => TargetsOf(task[p]) \subseteq task[p].tried

\* C12: a rate-limit answer for a target ends the attempt for it with the
\* outcome rate_limited and without a ledger row: the call is not left waiting
\* or sending again for that target, a row for it exists only for a completed
\* send and is the only one.
C12_RateLimitedOutcome ==
    \A p \in Tasks : \A x \in task[p].limited :
        /\ x \notin InFlight(task[p])
        /\ RecordsOf(Key(task[p].chat, task[p].id, x)) \subseteq sent
        /\ Cardinality(RecordsOf(Key(task[p].chat, task[p].id, x))) <= 1

\* C13: retries after a rate-limit signal are bounded: under a transport that
\* keeps answering rate-limited for a target, every delivery attempt ends and
\* the processing of the event reaches its terminal state.
C13_RetriesBounded ==
    \A p \in Tasks : (task[p].pc = "sending") ~> (task[p].pc = "done")

\* C14: the high-water mark of a feed is set to an item's id only in the step
\* that ends the fan-out of that item with every target of its list attempted;
\* a processing cancelled part-way through leaves the mark as it was.
C14_MarkAfterAllTargets ==
    [][\A f \in Feeds :
          (/\ Mark(source_channels', f) # Mark(source_channels, f)
           /\ Mark(source_channels', f) # 0)
          => \E p \in Tasks :
                /\ task[p].pc # "done"
                /\ task'[p].pc = "done"
                /\ task'[p].verdict = "fanout"
                /\ task'[p].info = f
                /\ task'[p].id = Mark(source_channels', f)
                /\ task'[p].targets # <<>>
                /\ task'[p].tried = TargetsOf(task'[p])]_vars

\* C14 witness: a processing was cancelled with a target of its list not yet
\* attempted, and the mark of its feed is below the item
C14_Witness ==
    \E p \in Tasks :
        /\ task[p].pc = "done"
        /\ task[p].verdict = "cancelled"
        /\ task[p].calls > 0
        /\ task[p].tried # TargetsOf(task[p])
        /\ Mark(source_channels, task[p].info) < task[p].id

\* C15: a transport error other than a rate limit ends the attempt as failed:
\* the step writes no ledger row and exactly one errors row carrying the
\* target channel id and the item id, and when the fan-out ends the mark of
\* the feed is the item, every target having been attempted.
C15_FailedLoggedMarkAdvances ==
    [][\A p \in Tasks :
          /\ \A x \in task'[p].failed \ task[p].failed :
                /\ errors' = errors (+) SetToBag({[error_type |-> "publish_error",
                                                    channel_id |-> x,
                                                    message_id |-> task[p].id]})
                /\ published_posts' = published_posts
                /\ sent' = sent
          /\ (/\ task[p].pc # "done"
               /\ task'[p].pc = "done"
               /\ task'[p].verdict = "fanout"
               /\ task'[p].failed # {})
              => /\ Mark(source_channels', task'[p].info) = task'[p].id
                 /\ task'[p].tried = TargetsOf(task'[p])]_vars

\* C15 witness: a fan-out over two targets ended with one failed: the errors
\* table holds one row for it, the ledger none, and the mark is the item
C15_Witness ==
    \E p \in Tasks : \E x \in task[p].failed :
        /\ task[p].pc = "done"
        /\ task[p].verdict = "fanout"
        /\ Len(task[p].targets) = 2
        /\ CopiesIn([error_type |-> "publish_error", channel_id |-> x,
                      message_id |-> task[p].id], errors) = 1
        /\ BagCardinality(errors) = 1
        /\ RecordsOf(Key(task[p].chat, task[p].id, x)) = {}
        /\ Mark(source_channels, task[p].info) = task[p].id

\* C16: whenever the high-water mark of a feed is m, every item of the feed
\* with id <= m has been processed to its end (dropped as stale, filtered out,
\* or attempted on all targets).
C16_MarkCoversProcessed ==
    \A f \in Feeds : \A n \in 1..Len(provider[f]) :
        n <= Mark(source_channels, f) => <<f, n>> \in processed

\* C17: per (feed, target) pair the delivery attempts are in non-decreasing
\* item order: a step that attempts item n of a feed on a target finds no
\* attempt of a later item of that feed on that target.
C17_AttemptsInOrder ==
    [][\A a \in attempts' \ attempts : \A b \in attempts :
          (b[1] = a[1] /\ b[3] = a[3]) => b[2] <= a[2]]_vars

\* the parts of a rendered caption
PartsOf(c) == {c.parts[k] : k \in 1..Len(c.parts)}
BodyOf(c, info) == c.parts[IF info.title = <<>> THEN 1 ELSE 2]
EndsWith(x, suffix) ==
    /\ Len(x) >= Len(suffix)
    /\ SubSeq(x, Len(x) - Len(suffix) + 1, Len(x)) = suffix
Rendered == out_caption.fn \in {"_format_caption", "format_message"} /\ ~out_caption.raised

\* C18: the rendered payload is never longer than MAX_POST_LENGTH; the
\* attribution line and the permalink are in it whole, and a body that was cut
\* ends with the ellipsis marker.
C18_PayloadWithinMax ==
    Rendered =>
        /\ Len(out_caption.text) <= MAX_POST_LENGTH
        /\ caption_header(in_info) # <<>> => Head(out_caption.parts) = caption_header(in_info)
        /\ caption_link(in_message, in_info) # <<>> =>
              caption_link(in_message, in_info) \in PartsOf(out_caption)
        /\ (in_message.text # <<>> /\ BodyOf(out_caption, in_info) # in_message.text) =>
              EndsWith(BodyOf(out_caption, in_info), Ellipsis)

\* C19 as stated: a text of exactly MAX_POST_LENGTH characters is rendered
\* untruncated, and a text one character longer is cut and ends with the
\* ellipsis marker.
C19_BoundaryAtMax ==
    out_caption.fn = "_format_caption" =>
        /\ Len(in_message.text) = MAX_POST_LENGTH =>
              BodyOf(out_caption, in_info) = in_message.text
        /\ Len(in_message.text) = MAX_POST_LENGTH + 1 =>
              /\ BodyOf(out_caption, in_info) # in_message.text
              /\ EndsWith(BodyOf(out_caption, in_info), Ellipsis)

\* C19, amended: the boundary is MAX_POST_LENGTH - 200.  A text of exactly
\* that length is rendered untruncated; a text one character longer is cut to
\* its first MAX_POST_LENGTH - 200 characters followed by the ellipsis marker,
\* with the attribution line and the permalink whole.
C19_BoundaryAtBodyLimit ==
    out_caption.fn = "_format_caption" =>
        /\ Len(in_message.text) = MAX_POST_LENGTH - CaptionReserve =>
              BodyOf(out_caption, in_info) = in_message.text
        /\ Len(in_message.text) = MAX_POST_LENGTH - CaptionReserve + 1 =>
              /\ BodyOf(out_caption, in_info) =
                    SubSeq(in_message.text, 1, MAX_POST_LENGTH - CaptionReserve) \o Ellipsis
              /\ caption_header(in_info) # <<>> =>
                    Head(out_caption.parts) = caption_header(in_info)
              /\ caption_link(in_message, in_info) # <<>> =>
                    caption_link(in_message, in_info) \in PartsOf(out_caption)

\* C19 witness: a text one character over the boundary was rendered with an
\* attribution line and a permalink
C19_Witness ==
    /\ out_caption.fn = "_format_caption"
    /\ Len(in_message.text) = MAX_POST_LENGTH - CaptionReserve + 1
    /\ EndsWith(BodyOf(out_caption, in_info), Ellipsis)
    /\ caption_header(in_info) \in PartsOf(out_caption)
    /\ caption_link(in_message, in_info) \in PartsOf(out_caption)
    /\ Len(out_caption.parts) >= 3

\* the rule list without its i-th row
WithoutRule(rows, i) == [k \in 1..(Len(rows) - 1) |-> IF k < i THEN rows[k] ELSE rows[k + 1]]

\* C20: a pattern rule whose value is not a valid regular expression is
\* skipped: the result of check_message equals its result for the same text
\* with that rule removed, wherever the rule sits in the chain.
C20_InvalidPatternSkipped ==
    out_pass.fn = "check_message" =>
        \A i \in 1..Len(filters) :
            (/\ filters[i].filter_type = "regex"
             /\ filters[i].is_active
             /\ ~re_valid(filters[i].value))
            => out_pass.result = check_message(in_text, WithoutRule(filters, i))

\* the rule list in another order
Reordered(rows, order) == [k \in 1..Len(rows) |-> rows[order[k]]]

\* C21: the filter result does not depend on the order of the rules: for
\* every text, check_message returns the same boolean for every permutation
\* of the rule list.
C21_OrderIndependent ==
    out_pass.fn = "check_message" =>
        \A order \in Listings(1..Len(filters)) :
            check_message(in_text, Reordered(filters, order)) = out_pass.result

\* C21 witness: two active rules of different kinds and case sensitivity, the
\* first satisfied and the second not
C21_Witness ==
    /\ out_pass.fn = "check_message"
    /\ Len(filters) = 2
    /\ filters[1].is_active /\ filters[2].is_active
    /\ filters[1].filter_type # filters[2].filter_type
    /\ filters[1].is_case_sensitive # filters[2].is_case_sensitive
    /\ in_text # <<>>
    /\ filter_step(in_text, filters[1]) = "next"
    /\ filter_step(in_text, filters[2]) = "fail"
    /\ ~out_pass.result

C25_PatternUnchanged ==
    (/\ out_pass.fn = "check_message"
     /\ in_text # <<>>
     /\ \A i \in 1..Len(filters) :
           filters[i].is_active =>
               filters[i].filter_type = "regex" /\ re_valid(filters[i].value))
    => (out_pass.result <=>
           \A i \in 1..Len(filters) :
               filters[i].is_active =>
                   re_search(filters[i].value, ~filters[i].is_case_sensitive, in_text))
\* the targets a call holds once it has passed the checks of _process_message
ActiveIds ==
    LET active == get_target_channels(target_channels)
    IN  [i \in 1..Len(active) |-> active[i].channel_id]

\* the step is the entry of task p into _process_message
Enters(p) == task[p].pc \in {"idle", "queued"} /\ task'[p].verdict # "none"

\* C23: the push path and the pull path apply the same logic to an item:
\* whichever task hands an item to _process_message, the decision is the one
\* the staleness check, the filter chain, the media check and the active
\* targets give, the first send is for the first active target without a
\* ledger row, and the publisher is given the channel_info of the feed of the
\* item (as the scan gives it), which goes into the ledger row it writes.
C23_SameLogicBothPaths ==
    [][\A p \in Tasks :
          Enters(p) =>
              LET t == task'[p]
                  message == provider[t.chat][t.id]
                  j == NextUnpublished(published_posts, t.chat, t.id, ActiveIds, 1)
              IN  /\ t.verdict = Verdict(message.text, message.media, t.age, filters,
                                         get_target_channels(target_channels))
                  /\ t.verdict = "fanout" =>
                         /\ t.info = t.chat
                         /\ t.targets = ActiveIds
                         /\ (t.pc = "sending") = (j # 0)
                         /\ t.pc = "sending" => t.idx = j
                  /\ t.verdict # "fanout" => t.pc = "done" /\ t.tried = {}]_vars

\* C24: a duplicate delivery attempt is a no-op and not an error: a step in
\* which a target is skipped because the ledger has its key writes no errors
\* row for that target, and a step in which add_published_post loses the
\* insert writes no errors row at all; in both the call goes on with the
\* remaining targets.
C24_DuplicateBenign ==
    [][\A p \in Tasks :
          LET newskip == task'[p].skipped \ task[p].skipped
              lost == {c \in addlog' \ addlog : ~c.ok}
              rows == BagToSet(errors' (-) errors)
          IN  /\ task[p].pc # "idle" /\ newskip # {} =>
                     /\ \A r \in rows : r.channel_id \notin newskip
                     /\ task'[p].pc \in {"sending", "done"}
                     /\ task'[p].verdict = "fanout"
                     /\ task'[p].failed \cap newskip = {}
              /\ task[p].pc = "sending" /\ task'[p] # task[p] /\ lost # {} =>
                     /\ errors' = errors
                     /\ task'[p].pc \in {"sending", "done"}
                     /\ task'[p].verdict = "fanout"
                     /\ task'[p].failed = task[p].failed]_vars

\* C24 witness: an insert was lost, a call has skipped a target the ledger
\* already had, and the errors table is empty
C24_Witness ==
    /\ \E c \in addlog : ~c.ok
    /\ \E p \in Tasks : task[p].skipped # {}
    /\ errors = EmptyBag
\* C28: adding a source feed does not disturb the subscriptions of the other
\* feeds: a feed with a registered new-message handler keeps it through every
\* step, those of add_channel included.
C28_SubscriptionsKept ==
    [][\A f \in handlers : f \in handlers']_vars
\* C29: the backlog scan of a feed processes only items whose id is greater
\* than the feed's high-water mark: whenever the scan hands an item to
\* _process_message, the id of the item is above the mark the store holds
\* for the feed at that moment.
C29_ScanAboveMark ==
    [][Enters(Scanner) =>
          task'[Scanner].id > Mark(source_channels, task'[Scanner].chat)]_vars

\* C30: the high-water mark of a feed never decreases, whatever push events,
\* backlog scans and add_source_channel calls take place.
C30_MarkMonotone ==
    [][\A i \in 1..Len(source_channels) :
          Mark(source_channels', source_channels[i].channel_id)
              >= source_channels[i].last_scanned_id]_vars
\* C26: every payload handed to the transport holds the attribution line when
\* the source feed has a title and the permalink when it has a username, for
\* photo, video and document events as for text-only events.
C26_PayloadAttributed ==
    out_caption.fn \in SendMethods =>
        /\ in_info.title # <<>> => caption_header(in_info) \in PartsOf(out_caption)
        /\ in_info.username # <<>> => caption_link(in_message, in_info) \in PartsOf(out_caption)
\* the targets whose row has the active flag set
ActiveTargets(rows) == {rows[i].channel_id : i \in {k \in 1..Len(rows) : rows[k].is_active}}
InactiveTargets(rows) == {rows[i].channel_id : i \in {k \in 1..Len(rows) : ~rows[k].is_active}}

\* C27: the transport is invoked only for active targets: the list a fan-out
\* holds is that of the targets active when it was read, every send is for a
\* target of the list of the call that issues it, and a deactivated target
\* becomes active again only by the operator adding it again.
C27_OnlyActiveTargets ==
    [][/\ \A p \in Tasks :
            /\ Enters(p) /\ task'[p].verdict = "fanout" =>
                   TargetsOf(task'[p]) = ActiveTargets(target_channels)
            /\ ~Enters(p) => task'[p].targets \in {task[p].targets, <<>>}
       /\ \A r \in sent' \ sent :
            \E p \in Tasks : task[p].pc = "sending"
                              /\ r.target_channel_id = task[p].targets[task[p].idx]
       /\ \A t \in InactiveTargets(target_channels) :
            t \in ActiveTargets(target_channels') =>
                target_channels' = Append(SelectSeq(target_channels,
                                                    LAMBDA r : r.channel_id # t),
                                          [channel_id |-> t, is_active |-> TRUE])]_vars

\* C27 witness: a message was sent by a call whose list leaves out a target
\* that has a row with the active flag cleared
C27_Witness ==
    \E p \in Tasks :
        /\ task[p].pc = "done" /\ task[p].verdict = "fanout"
        /\ \E r \in sent : r.source_message_id = task[p].id
                            /\ r.target_channel_id \in TargetsOf(task[p])
        /\ \E t \in InactiveTargets(target_channels) : t \notin TargetsOf(task[p])
\* the step is the one in which the _process_message call of task p ends
Ends(p) == task[p].pc # "done" /\ task'[p].pc = "done"

\* C31: processing an item of feed F changes only F's high-water mark: in the
\* step that ends a _process_message call for an item of F, the mark of every
\* other feed is left as it was.
C31_OnlyOwnMark ==
    [][\A p \in Tasks :
          Ends(p) =>
              \A f \in SubFeeds :
                  f # task'[p].chat =>
                      Mark(source_channels', f) = Mark(source_channels, f)]_vars
\* C32: every event that is not stale and passes the filter chain enters the
\* fan-out: with an active target, the call that processes it goes on to the
\* delivery to the active targets, whatever media the event carries.
C32_PassingEntersFanOut ==
    [][\A p \in Tasks :
          (/\ Enters(p)
           /\ task'[p].age <= ThresholdHours
           /\ check_message(provider[task'[p].chat][task'[p].id].text, filters)
           /\ ActiveTargets(target_channels) # {})
          => /\ task'[p].verdict = "fanout"
             /\ TargetsOf(task'[p]) = ActiveTargets(target_channels)
             /\ task'[p].tried # {}]_vars
\* C33: whenever publish_message returns a published message id the ledger
\* holds a record for the key, and a send whose ledger insert failed is not
\* reported as sent (publish_message returns None for it).
C33_SentMeansRecorded ==
    \A c \in addlog :
        /\ c.returned # 0 => HasRecord(published_posts, c.key)
        /\ ~c.ok => c.returned = 0
\* C34: posts_published of a feed changes together with the ledger: it grows
\* by one with each ledger insert for the feed and stays as it is when the
\* insert is rejected, so it equals the number of ledger records of the feed.
C34_StatisticsMatchLedger ==
    \A f \in DOMAIN statistics :
        statistics[f] = Cardinality({r \in published_posts : r.source_channel_id = f})

\* C34 witness: two records were inserted for the feed and a third insert
\* was rejected as a duplicate
C34_Witness ==
    /\ \E c \in addlog : ~c.ok
    /\ \E f \in DOMAIN statistics : statistics[f] = 2
\* C35: truncation never lengthens the body: the body _format_caption puts in
\* the payload is no longer than the original text and no longer than
\* MAX_POST_LENGTH - 200, the ellipsis marker included.
C35_BodyNeverLonger ==
    (out_caption.fn = "_format_caption" /\ in_message.text # <<>>) =>
        /\ Len(BodyOf(out_caption, in_info)) <= Len(in_message.text)
        /\ Len(BodyOf(out_caption, in_info)) <= MAX_POST_LENGTH - CaptionReserve
\* C36: the two filter implementations agree on their common rule language:
\* for a rule set of case-insensitive include and exclude rules only,
\* check_message_filters returns what check_message returns for the same text.
C36_VariantsAgree ==
    (/\ out_pass.fn = "check_message_filters"
     /\ \A i \in 1..Len(filters) :
           /\ filters[i].filter_type \in {"include", "exclude"}
           /\ ~filters[i].is_case_sensitive
           /\ filters[i].is_active)
    => out_pass.result = check_message(in_text, filters)
\* C37: hashtags only add to the payload and never decide delivery: a call of
\* publish_message of the simplified variant sends the event to every active
\* target and records each of them, whether or not the text holds #word
\* tokens.
C37_HashtagsNeverDecide ==
    out_caption.fn = "publish_message" =>
        /\ out_caption.delivered = ActiveTargets(target_channels)
        /\ \A t \in ActiveTargets(target_channels) :
               HasRecord(published_posts, Key(CaptionChat, in_message.id, t))
\* C38: truncate_text returns the text unchanged when it is no longer than
\* max_length and otherwise a string of at most max_length characters that
\* ends with the ellipsis, for every max_length from 0 on.
C38_TruncateWithinMax ==
    out_caption.fn = "truncate_text" =>
        IF Len(in_text) <= in_max_length
        THEN out_caption.text = in_text
        ELSE /\ Len(out_caption.text) <= in_max_length
             /\ EndsWith(out_caption.text, Ellipsis)
====
